---- MODULE Spec2Model ----
(***************************************************************************)
(* Witness generation of zkWasm: the memory writing table                   *)
(* (circuits/utils/table_entry.rs), the join of the event table with it,    *)
(* and the event table assignment (circuits/etable/assign.rs).              *)
(*                                                                          *)
(* Integers of the program are u32; the model keeps the width but scales    *)
(* it down to U32_BITS bits, so that u32::MAX is U32_MAX.  The eids of a    *)
(* trace are drawn from Eids, all below both sentinels of from().           *)
(***************************************************************************)
EXTENDS Integers, Sequences, FiniteSets, TLC

VARIABLES
    continuation,          \* cfg!(feature = "continuation")
    mtable,                \* MTable: the memory access trace handed to from()
    event_table,           \* EventTable: the steps handed to new()
    memory_writing_table,  \* MemoryWritingTable.0, once from() has returned
    joined,                \* what new() returned (or that it panicked)
    finalize,              \* what count_rest_memory_finalize_ops() returned
    pc,                    \* position of the memory pipeline
    dump,                  \* the debug dump of write_json(): the file and the outcome
    capability,            \* self.capability of the EventTableChip
    slice,                 \* event_table: the steps of the slice handed to assign()
    initialization_state,  \* the incoming Checkpoint Vector
    post_initialization_state,  \* the expected outgoing Checkpoint Vector
    apc,                   \* position of assign()
    region,                \* the cells assigned so far: <<row, column>> -> value
    rest_ops,              \* what compute_rest_mops_and_jops() returned
    fold,                  \* the running counters of the fold of assign_entries()
    status,                \* Vec<Status> of assign_entries()
    placed,                \* the indexes whose par_iter closure has run
    cut,                   \* the position at which a step sequence is cut in two slices
    chain,                 \* the counters after the folds of the uncut sequence and its slices
    fields                 \* two Checkpoint Vectors and what plain, zip_for_each, map did

memvars == <<mtable, event_table, memory_writing_table, joined, finalize, pc, dump>>

assignvars == <<capability, slice, initialization_state, post_initialization_state,
                apc, region, rest_ops, fold, status, placed>>

chainvars == <<cut, chain>>

statevars == <<fields>>

vars == <<continuation, memvars, assignvars, chainvars, statevars>>

(***************************************************************************)
(* Bounds and scaled constants                                              *)
(***************************************************************************)
\* number of memory accesses the steps of a trace perform
MaxAccesses == 3

\* length of the traces of the finalize counting
MaxWrites == 6

\* width of the scaled u32
U32_BITS == 5

\* the k handed to from()
K == 5

U32_MAX == 2^U32_BITS - 1

\* eids of the steps of a trace (eid 0 is the eid of Init accesses)
Eids == {1, 2, 3, 5, 7}

(***************************************************************************)
(* specs::mtable                                                            *)
(***************************************************************************)
LocationType == {"Stack", "Heap"}

AccessType == {"Read", "Write", "Init"}

\* derive(Ord) on LocationType
LocationTypeRank(ltype) == IF ltype = "Stack" THEN 1 ELSE 2

\* the cells of the pipeline traces
Cells == {<<"Stack", 0>>, <<"Heap", 0>>}

\* the cells of the finalize counting traces
FinalizeCells == {<<"Stack", 0>>, <<"Stack", 1>>, <<"Heap", 0>>}

MemoryTableEntry(eid, ltype, offset, atype) ==
    [eid |-> eid, ltype |-> ltype, offset |-> offset, atype |-> atype]

is_same_location(self, other) ==
    self.ltype = other.ltype /\ self.offset = other.offset

\* the key MTable::new sorts by: (ltype, offset, eid)
MTableKeyLeq(a, b) ==
    \/ LocationTypeRank(a.ltype) < LocationTypeRank(b.ltype)
    \/ /\ a.ltype = b.ltype
       /\ \/ a.offset < b.offset
          \/ a.offset = b.offset /\ a.eid <= b.eid

\* stable insertion of e into the sorted sequence s, after its equals
RECURSIVE InsertSorted(_, _)
InsertSorted(s, e) ==
    IF s = <<>> THEN <<e>>
    ELSE IF MTableKeyLeq(s[Len(s)], e) THEN Append(s, e)
    ELSE Append(InsertSorted(SubSeq(s, 1, Len(s) - 1), e), s[Len(s)])

\* MTable::new: the entries stably sorted by (ltype, offset, eid)
RECURSIVE MTableNew(_)
MTableNew(entries) ==
    IF entries = <<>> THEN <<>>
    ELSE InsertSorted(MTableNew(SubSeq(entries, 1, Len(entries) - 1)), entries[Len(entries)])

(***************************************************************************)
(* MemoryWritingTable                                                       *)
(***************************************************************************)
common_range_max(k) == 2^(k - 1) - 1

maximal_eid(k) == IF continuation THEN U32_MAX ELSE common_range_max(k)

is_same_memory_address(self, other) == is_same_location(self.entry, other.entry)

\* from(), first pass: the non-Read accesses, indexed, with the sentinel
from_entries(k, value) ==
    LET writes == SelectSeq(value, LAMBDA entry : entry.atype # "Read")
    IN  [i \in 1..Len(writes) |->
            [index |-> i - 1, entry |-> writes[i], end_eid |-> maximal_eid(k)]]

\* from_link without the test of the address
from_link_any_cell(entries) ==
    [i \in 1..Len(entries) |->
        IF i < Len(entries)
        THEN [entries[i] EXCEPT !.end_eid = entries[i + 1].entry.eid]
        ELSE entries[i]]

\* from(), second pass: zip with the entries shifted by one
from_link(entries) ==
    [i \in 1..Len(entries) |->
        IF i < Len(entries) /\ is_same_memory_address(entries[i], entries[i + 1])
        THEN [entries[i] EXCEPT !.end_eid = entries[i + 1].entry.eid]
        ELSE entries[i]]

\* from_filter that keeps every entry
from_filter_keep_all(entries) == entries

\* from(), third pass: the filter
from_filter(entries) ==
    SelectSeq(entries, LAMBDA entry : entry.entry.eid # entry.end_eid)

from(k, value) == from_filter(from_link(from_entries(k, value)))

\* is_finalize_entry without the peek at the next entry
is_finalize_entry_every_write(table, i) == table[i].entry.atype = "Write"

\* the peekable loop of count_rest_memory_finalize_ops
is_finalize_entry(table, i) ==
    /\ table[i].entry.atype = "Write"
    /\ \/ i = Len(table)
       \/ ~is_same_location(table[i + 1].entry, table[i].entry)

count_rest_memory_finalize_ops_every_cell(table) ==
    LET hits == {i \in 1..Len(table) : is_finalize_entry(table, i)}
    IN  [count |-> Cardinality(hits) % (U32_MAX + 1),
         set   |-> {<<table[i].entry.ltype, table[i].entry.offset>> : i \in 1..Len(table)}]

count_rest_memory_finalize_ops(table) ==
    LET hits == {i \in 1..Len(table) : is_finalize_entry(table, i)}
    IN  [count |-> Cardinality(hits) % (U32_MAX + 1),
         set   |-> {<<table[i].entry.ltype, table[i].entry.offset>> : i \in hits}]

\* (location, offset) |-> Vec<(start_eid, end_eid)>
build_lookup_mapping(table) ==
    LET keys == {<<table[i].entry.ltype, table[i].entry.offset>> : i \in 1..Len(table)}
    IN  [key \in keys |->
            LET own == SelectSeq(table, LAMBDA e : <<e.entry.ltype, e.entry.offset>> = key)
            IN  [i \in 1..Len(own) |-> <<own[i].entry.eid, own[i].end_eid>>]]

(***************************************************************************)
(* EventTableWithMemoryInfo                                                 *)
(***************************************************************************)
\* slice::binary_search_by over the orderings the comparator gives
RECURSIVE binary_search_loop(_, _, _, _)
binary_search_loop(ords, left, right, size) ==
    IF left >= right THEN [found |-> FALSE, idx |-> left]
    ELSE LET mid == left + (size \div 2)
             cmp == ords[mid + 1]
         IN  IF cmp = "Equal" THEN [found |-> TRUE, idx |-> mid]
             ELSE LET l == IF cmp = "Less" THEN mid + 1 ELSE left
                      r == IF cmp = "Greater" THEN mid ELSE right
                  IN  binary_search_loop(ords, l, r, r - l)

binary_search_by(ords) == binary_search_loop(ords, 0, Len(ords), Len(ords))

\* cmp_writing on the end of the interval
cmp_writing_end_eid(record, eid) ==
    IF record[2] < eid THEN "Less"
    ELSE IF record[2] > eid THEN "Greater"
    ELSE "Equal"

\* the comparator of the is_writing branch: start_eid.cmp(eid)
cmp_writing(record, eid) ==
    IF record[1] < eid THEN "Less"
    ELSE IF record[1] > eid THEN "Greater"
    ELSE "Equal"

\* cmp_reading with the end of the interval excluded
cmp_reading_end_exclusive(record, eid) ==
    IF eid <= record[1] THEN "Greater"
    ELSE IF eid >= record[2] THEN "Less"
    ELSE "Equal"

\* cmp_reading with the start of the interval included
cmp_reading_from_start(record, eid) ==
    IF eid < record[1] THEN "Greater"
    ELSE IF eid > record[2] THEN "Less"
    ELSE "Equal"

\* the comparator of the read branch
cmp_reading(record, eid) ==
    IF eid <= record[1] THEN "Greater"
    ELSE IF eid > record[2] THEN "Less"
    ELSE "Equal"

Panic == [ok |-> FALSE]

\* lookup_mtable_eid with an empty interval where an unwrap() fails
lookup_mtable_eid_or_default(lookup, eid, ltype, offset, is_writing) ==
    IF <<ltype, offset>> \notin DOMAIN lookup
    THEN [ok |-> TRUE, start_eid |-> 0, end_eid |-> 0]
    ELSE LET records == lookup[<<ltype, offset>>]
             ords == [i \in 1..Len(records) |->
                        IF is_writing THEN cmp_writing(records[i], eid)
                        ELSE cmp_reading(records[i], eid)]
             hit == binary_search_by(ords)
         IN  IF ~hit.found THEN [ok |-> TRUE, start_eid |-> 0, end_eid |-> 0]
             ELSE [ok |-> TRUE,
                   start_eid |-> records[hit.idx + 1][1],
                   end_eid |-> records[hit.idx + 1][2]]

\* the closure lookup_mtable_eid; Panic where an unwrap() fails
lookup_mtable_eid(lookup, eid, ltype, offset, is_writing) ==
    IF <<ltype, offset>> \notin DOMAIN lookup THEN Panic
    ELSE LET records == lookup[<<ltype, offset>>]
             ords == [i \in 1..Len(records) |->
                        IF is_writing THEN cmp_writing(records[i], eid)
                        ELSE cmp_reading(records[i], eid)]
             hit == binary_search_by(ords)
         IN  IF ~hit.found THEN Panic
             ELSE [ok |-> TRUE,
                   start_eid |-> records[hit.idx + 1][1],
                   end_eid |-> records[hit.idx + 1][2]]

\* runtime::memory_event_of_step: the accesses a step performs, in order
memory_event_of_step(eentry) == eentry.mem

\* one element of the inner map of new()
MemoryRWEntry(lookup, eentry, mentry) ==
    LET r == lookup_mtable_eid(lookup, eentry.eid, mentry.ltype, mentry.offset,
                               mentry.atype = "Write")
    IN  IF r.ok
        THEN [ok |-> TRUE, entry |-> mentry, start_eid |-> r.start_eid, end_eid |-> r.end_eid]
        ELSE Panic

\* new() that joins only the first memory access of a step
new_first_access_only(etable, table) ==
    LET lookup == build_lookup_mapping(table)
        rw(eentry) ==
            IF memory_event_of_step(eentry) = <<>> THEN <<>>
            ELSE <<MemoryRWEntry(lookup, eentry, memory_event_of_step(eentry)[1])>>
        all == [i \in 1..Len(etable) |->
                   [eentry |-> etable[i], memory_rw_entires |-> rw(etable[i])]]
    IN  IF \E i \in 1..Len(all) : \E j \in 1..Len(all[i].memory_rw_entires) :
              ~all[i].memory_rw_entires[j].ok
        THEN [panicked |-> TRUE, entries |-> <<>>]
        ELSE [panicked |-> FALSE, entries |-> all]

\* EventTableWithMemoryInfo::new; a panic of any lookup aborts the whole call
new(etable, table) ==
    LET lookup == build_lookup_mapping(table)
        rw(eentry) == [j \in 1..Len(memory_event_of_step(eentry)) |->
                          MemoryRWEntry(lookup, eentry, memory_event_of_step(eentry)[j])]
        all == [i \in 1..Len(etable) |->
                   [eentry |-> etable[i], memory_rw_entires |-> rw(etable[i])]]
    IN  IF \E i \in 1..Len(all) : \E j \in 1..Len(all[i].memory_rw_entires) :
              ~all[i].memory_rw_entires[j].ok
        THEN [panicked |-> TRUE, entries |-> <<>>]
        ELSE [panicked |-> FALSE, entries |-> all]

(***************************************************************************)
(* Inputs of the memory pipeline                                            *)
(***************************************************************************)
\* what the steps emit: accesses in step order
Emission ==
    [eid : Eids, ltype : LocationType, offset : {0}, atype : {"Read", "Write"}]

EmissionTraces ==
    {t \in UNION {[1..n -> Emission] : n \in 0..MaxAccesses} :
        \A i \in 1..(Len(t) - 1) : t[i].eid <= t[i + 1].eid}

\* the Init accesses of the cells an image initialises, at eid 0
InitEntries(cells) ==
    LET stack == IF <<"Stack", 0>> \in cells
                 THEN <<MemoryTableEntry(0, "Stack", 0, "Init")>> ELSE <<>>
        heap  == IF <<"Heap", 0>> \in cells
                 THEN <<MemoryTableEntry(0, "Heap", 0, "Init")>> ELSE <<>>
    IN  stack \o heap

\* the event table of a trace: one step per eid, with the accesses it emitted
StepsOf(trace) ==
    LET eids == {trace[i].eid : i \in 1..Len(trace)}
        RECURSIVE steps(_)
        steps(rest) ==
            IF rest = {} THEN <<>>
            ELSE LET e == CHOOSE x \in rest : \A y \in rest : x <= y
                     own == SelectSeq(trace, LAMBDA a : a.eid = e)
                 IN  <<[eid |-> e,
                        mem |-> [j \in 1..Len(own) |->
                                    [ltype |-> own[j].ltype, offset |-> own[j].offset,
                                     atype |-> own[j].atype]]]>>
                     \o steps(rest \ {e})
    IN  steps(eids)

Idle == [panicked |-> FALSE, entries |-> <<>>]

\* write_json() has not been called
NoDump == [file |-> "none", io |-> "none", result |-> "none"]

NoFinalize == [count |-> 0, set |-> {}]

\* no slice is being assigned
AssignIdle ==
    /\ capability = 0
    /\ slice = <<>>
    /\ initialization_state = <<>>
    /\ post_initialization_state = <<>>
    /\ apc = "idle"
    /\ region = <<>>
    /\ rest_ops = <<>>
    /\ fold = <<>>
    /\ status = <<>>
    /\ placed = {}

\* no Checkpoint Vector is being traversed
NoFields == <<>>

NoChain == <<>>

\* no step sequence is being cut
ChainIdle == cut = 0 /\ chain = NoChain

Init ==
    /\ continuation \in BOOLEAN
    /\ AssignIdle
    /\ ChainIdle
    /\ fields = NoFields
    /\ \E trace \in EmissionTraces : \E cells \in SUBSET Cells :
          /\ mtable = MTableNew(InitEntries(cells) \o trace)
          /\ event_table = StepsOf(trace)
    /\ memory_writing_table = <<>>
    /\ joined = Idle
    /\ finalize = NoFinalize
    /\ pc = "trace"
    /\ dump = NoDump

(***************************************************************************)
(* The memory pipeline                                                      *)
(***************************************************************************)
\* MemoryWritingTable::from(k, mtable)
From ==
    /\ pc = "trace"
    /\ memory_writing_table' = from(K, mtable)
    /\ pc' = "resolved"
    /\ UNCHANGED <<continuation, mtable, event_table, joined, finalize, dump,
                   assignvars, chainvars, statevars>>

\* memory_writing_table.count_rest_memory_finalize_ops()
CountFinalize ==
    /\ pc = "resolved"
    /\ finalize' = count_rest_memory_finalize_ops(memory_writing_table)
    /\ pc' = "counted"
    /\ UNCHANGED <<continuation, mtable, event_table, memory_writing_table, joined, dump,
                   assignvars, chainvars, statevars>>

\* EventTableWithMemoryInfo::new(&event_table, &memory_writing_table)
New ==
    /\ pc = "counted"
    /\ joined' = new(event_table, memory_writing_table)
    /\ pc' = IF joined'.panicked THEN "panicked" ELSE "joined"
    /\ UNCHANGED <<continuation, mtable, event_table, memory_writing_table, finalize, dump,
                   assignvars, chainvars, statevars>>

Next == From \/ CountFinalize \/ New

Spec == Init /\ [][Next]_vars

\* the traces of the finalize counting: writes and Init accesses to
\* three cells in any cell order, a write at the eid of its position
FinalizeTraces ==
    LET shapes == UNION {[1..n -> FinalizeCells \X {"Write", "Init"}] : n \in 0..MaxWrites}
    IN  {[i \in 1..Len(t) |->
            MemoryTableEntry(IF t[i][2] = "Init" THEN 0 ELSE i,
                             t[i][1][1], t[i][1][2], t[i][2])] : t \in shapes}

InitFinalize ==
    /\ continuation \in BOOLEAN
    /\ AssignIdle
    /\ ChainIdle
    /\ fields = NoFields
    /\ mtable \in FinalizeTraces
    /\ event_table = <<>>
    /\ memory_writing_table = <<>>
    /\ joined = Idle
    /\ finalize = NoFinalize
    /\ pc = "trace"
    /\ dump = NoDump

SpecFinalize == InitFinalize /\ [][Next]_vars

(***************************************************************************)
(* The debug dump of the memory writing table                               *)
(***************************************************************************)
\* what the file system does to write_json()
IoOutcomes == {"ok", "short_write", "current_dir_fails", "create_fails", "write_fails"}

\* write_json(dir): the return type is (), every failure is an unwrap() of an
\* Err; fd.write() may also write a part of the buffer and return Ok
write_json(io) ==
    CASE io = "current_dir_fails" -> [file |-> "none", io |-> io, result |-> "panic"]
      [] io = "create_fails" -> [file |-> "none", io |-> io, result |-> "panic"]
      [] io = "write_fails" -> [file |-> "created", io |-> io, result |-> "panic"]
      [] io = "short_write" -> [file |-> "partial", io |-> io, result |-> "unit"]
      [] OTHER -> [file |-> "written", io |-> io, result |-> "unit"]

\* memory_writing_table.write_json(dir), once the table is resolved
WriteJson ==
    /\ pc = "resolved"
    /\ dump = NoDump
    /\ \E io \in IoOutcomes : dump' = write_json(io)
    /\ pc' = IF dump'.result = "panic" THEN "dump_panicked" ELSE pc
    /\ UNCHANGED <<continuation, mtable, event_table, memory_writing_table, joined, finalize,
                   assignvars, chainvars, statevars>>

NextDump == Next \/ WriteJson

\* the memory pipeline with the debug dump
SpecDump == Init /\ [][NextDump]_vars

(***************************************************************************)
(* Inputs of assign(): the slice, its checkpoints, the capacity             *)
(***************************************************************************)
\* steps of a slice
MaxSteps == 3

\* EVENT_TABLE_ENTRY_ROWS of circuits::etable
EVENT_TABLE_ENTRY_ROWS == 4

\* configure_table.maximal_memory_pages
MaximalMemoryPages == 5

\* capacities of the chip
Capabilities == {2, 8}

u32(n) == n % (U32_MAX + 1)

\* the opcode classes of the steps
Opcodes ==
    {"Const", "Store", "Return", "HostPublicInput", "ContextIn", "ContextOut",
     "ExternalHostCall"}

\* op_config.0.memory_writing_ops(&entry.eentry)
memory_writing_ops(eentry) ==
    CASE eentry.opcode = "Store" -> 2
      [] eentry.opcode \in {"Const", "HostPublicInput", "ContextIn"} -> 1
      [] OTHER -> 0

\* op_config.0.jops()
jops_of(eentry) == IF eentry.opcode = "Return" THEN 1 ELSE 0

is_host_public_input(eentry) == eentry.opcode = "HostPublicInput"

is_context_input_op(eentry) == eentry.opcode = "ContextIn"

is_context_output_op(eentry) == eentry.opcode = "ContextOut"

is_external_host_call(eentry) == eentry.opcode = "ExternalHostCall"

\* InitializationState<u32, BigUint>: jops is a field under continuation only
InitializationState(eid, fid, iid, frame_id, sp, host_public_inputs, context_in_index, context_out_index, external_host_call_call_index, initial_memory_pages, maximal_memory_pages, jops) ==
    LET common == [eid |-> eid, fid |-> fid, iid |-> iid, frame_id |-> frame_id, sp |-> sp,
                   host_public_inputs |-> host_public_inputs,
                   context_in_index |-> context_in_index,
                   context_out_index |-> context_out_index,
                   external_host_call_call_index |-> external_host_call_call_index,
                   initial_memory_pages |-> initial_memory_pages,
                   maximal_memory_pages |-> maximal_memory_pages]
    IN  IF continuation THEN common @@ [jops |-> jops] ELSE common

\* the incoming checkpoints: that of the first slice and that of a later one
PreStates ==
    {InitializationState(1, 0, 0, 0, 30, 0, 0, 0, 0, 1, MaximalMemoryPages, 0),
     InitializationState(4, 1, 2, 3, 27, 1, 2, 0, 1, 2, MaximalMemoryPages, 3)}

\* step i (from 0) of a slice that starts in the state pre
StepAt(pre, i, opcode) ==
    [eid |-> pre.eid + i, fid |-> pre.fid, iid |-> pre.iid + i, sp |-> pre.sp - i,
     last_jump_eid |-> pre.frame_id, allocated_memory_pages |-> pre.initial_memory_pages,
     opcode |-> opcode]

Slices(pre) ==
    {[i \in 1..Len(ops) |-> StepAt(pre, i - 1, ops[i])] :
        ops \in UNION {[1..n -> Opcodes] : n \in 0..MaxSteps}}

\* how many steps of a slice are of an opcode class
CountSteps(entries, opcode) ==
    Cardinality({i \in 1..Len(entries) : entries[i].opcode = opcode})

RECURSIVE SumJops(_)
SumJops(entries) ==
    IF entries = <<>> THEN 0
    ELSE SumJops(SubSeq(entries, 1, Len(entries) - 1)) + jops_of(entries[Len(entries)])

RECURSIVE SumMops(_)
SumMops(entries) ==
    IF entries = <<>> THEN 0
    ELSE SumMops(SubSeq(entries, 1, Len(entries) - 1))
         + memory_writing_ops(entries[Len(entries)])

\* what an expected post-checkpoint may be off by: nothing, or one counter by one
Deviations ==
    {"none", "host_public_inputs", "context_in_index", "context_out_index",
     "external_host_call_call_index", "jops"}

Off(deviation, field) == IF deviation = field THEN 1 ELSE 0

\* the outgoing checkpoint the interpreter hands over for a slice
PostState(pre, entries, deviation) ==
    InitializationState(
        pre.eid + Len(entries), pre.fid, pre.iid + Len(entries), pre.frame_id,
        pre.sp - Len(entries),
        pre.host_public_inputs + CountSteps(entries, "HostPublicInput")
            + Off(deviation, "host_public_inputs"),
        pre.context_in_index + CountSteps(entries, "ContextIn")
            + Off(deviation, "context_in_index"),
        pre.context_out_index + CountSteps(entries, "ContextOut")
            + Off(deviation, "context_out_index"),
        pre.external_host_call_call_index + CountSteps(entries, "ExternalHostCall")
            + Off(deviation, "external_host_call_call_index"),
        pre.initial_memory_pages, pre.maximal_memory_pages,
        (IF continuation THEN pre.jops ELSE 0) + SumJops(entries) + Off(deviation, "jops"))

\* the memory pipeline is not part of assign()
MemIdle ==
    /\ mtable = <<>>
    /\ event_table = <<>>
    /\ memory_writing_table = <<>>
    /\ joined = Idle
    /\ finalize = NoFinalize
    /\ pc = "idle"
    /\ dump = NoDump

NoFold == <<>>

NoRestOps == <<>>

NoRegion == <<>>

InitAssign ==
    /\ continuation \in BOOLEAN
    /\ MemIdle
    /\ ChainIdle
    /\ fields = NoFields
    /\ capability \in Capabilities
    /\ initialization_state \in PreStates
    /\ slice \in Slices(initialization_state)
    /\ \E deviation \in Deviations :
          post_initialization_state = PostState(initialization_state, slice, deviation)
    /\ apc = "start"
    /\ region = NoRegion
    /\ rest_ops = NoRestOps
    /\ fold = NoFold
    /\ status = <<>>
    /\ placed = {}

(***************************************************************************)
(* EventTableChip: the region and the assignment of cells                   *)
(***************************************************************************)
\* cell.assign(ctx, value): the cell of a column at the row ctx.offset
AssignCell(reg, offset, column, value) == (<<offset, column>> :> value) @@ reg

\* assign_step_state(ctx, state) with ctx.offset = offset
assign_step_state(reg, offset, state) ==
    LET r1  == AssignCell(reg, offset, "eid_cell", state.eid)
        r2  == AssignCell(r1, offset, "fid_cell", state.fid)
        r3  == AssignCell(r2, offset, "iid_cell", state.iid)
        r4  == AssignCell(r3, offset, "sp_cell", state.sp)
        r5  == AssignCell(r4, offset, "frame_id_cell", state.frame_id)
        r6  == AssignCell(r5, offset, "input_index_cell", state.host_public_inputs)
        r7  == AssignCell(r6, offset, "context_input_index_cell", state.context_in_index)
        r8  == AssignCell(r7, offset, "context_output_index_cell", state.context_out_index)
        r9  == AssignCell(r8, offset, "external_host_call_index_cell",
                          state.external_host_call_call_index)
        r10 == AssignCell(r9, offset, "mpages_cell", state.initial_memory_pages)
        r11 == AssignCell(r10, offset, "maximal_memory_pages_cell",
                          state.maximal_memory_pages)
    IN  IF continuation THEN AssignCell(r11, offset, "jops_cell", state.jops) ELSE r11

\* compute_rest_mops_and_jops that counts the writing steps, not their operations
compute_rest_mops_per_step(entries, state) ==
    LET rest_mops == u32(Cardinality({i \in 1..Len(entries) :
                                        memory_writing_ops(entries[i]) > 0}))
        rest_jops == SumJops(entries)
    IN  IF continuation THEN <<rest_mops, state.jops>> ELSE <<rest_mops, rest_jops>>

\* compute_rest_mops_and_jops(op_configs, itable, event_table, initialization_state)
compute_rest_mops_and_jops(entries, state) ==
    LET rest_mops == u32(SumMops(entries))
        rest_jops == SumJops(entries)
    IN  IF continuation THEN <<rest_mops, state.jops>> ELSE <<rest_mops, rest_jops>>

\* init(ctx): the selector of every step of the capacity, the terminating constants
init(reg, cap) ==
    LET RECURSIVE sel(_, _)
        sel(r, n) ==
            IF n = cap THEN r
            ELSE sel(AssignCell(r, n * EVENT_TABLE_ENTRY_ROWS, "step_sel", 1), n + 1)
        selected == sel(reg, 0)
        last == cap * EVENT_TABLE_ENTRY_ROWS
        mops == AssignCell(selected, last, "rest_mops_cell", 0)
    IN  IF continuation THEN mops ELSE AssignCell(mops, last, "jops_cell", 0)

\* assign_rest_ops_first_step(ctx) with ctx.offset = 0
assign_rest_ops_first_step(reg) ==
    AssignCell(AssignCell(reg, 0, "rest_mops_cell", 0), 0, "jops_cell", 0)

\* the Status the fold emits for a step, from the running counters
Status(eid, fid, iid, sp, last_jump_eid, allocated_memory_pages, counters) ==
    [eid |-> eid, fid |-> fid, iid |-> iid, sp |-> sp, last_jump_eid |-> last_jump_eid,
     allocated_memory_pages |-> allocated_memory_pages,
     rest_mops |-> counters.rest_mops, jops |-> counters.jops,
     host_public_inputs |-> counters.host_public_inputs,
     context_in_index |-> counters.context_in_index,
     context_out_index |-> counters.context_out_index,
     external_host_call_call_index |-> counters.external_host_call_call_index]

\* fold_start with the cursors at 0 instead of those of the checkpoint
fold_start_from_zero(state, rest_mops, jops) ==
    [host_public_inputs |-> 0, context_in_index |-> 0, context_out_index |-> 0,
     external_host_call_call_index |-> 0, rest_mops |-> rest_mops, jops |-> jops]

\* the running counters of the fold before its first step
fold_start(state, rest_mops, jops) ==
    [host_public_inputs |-> state.host_public_inputs,
     context_in_index |-> state.context_in_index,
     context_out_index |-> state.context_out_index,
     external_host_call_call_index |-> state.external_host_call_call_index,
     rest_mops |-> rest_mops, jops |-> jops]

\* fold_step with context_out_index under the predicate of context_in_index
fold_step_wrong_predicate(counters, eentry) ==
    [host_public_inputs |->
        IF is_host_public_input(eentry)
        THEN u32(counters.host_public_inputs + 1) ELSE counters.host_public_inputs,
     context_in_index |->
        IF is_context_input_op(eentry)
        THEN u32(counters.context_in_index + 1) ELSE counters.context_in_index,
     context_out_index |->
        IF is_context_input_op(eentry)
        THEN u32(counters.context_out_index + 1) ELSE counters.context_out_index,
     external_host_call_call_index |->
        IF is_external_host_call(eentry)
        THEN u32(counters.external_host_call_call_index + 1)
        ELSE counters.external_host_call_call_index,
     rest_mops |-> u32(counters.rest_mops - memory_writing_ops(eentry)),
     jops |-> IF continuation THEN counters.jops + jops_of(eentry)
              ELSE counters.jops - jops_of(eentry)]

\* fold_step that counts jops down in both modes
fold_step_jops_down(counters, eentry) ==
    [host_public_inputs |->
        IF is_host_public_input(eentry)
        THEN u32(counters.host_public_inputs + 1) ELSE counters.host_public_inputs,
     context_in_index |->
        IF is_context_input_op(eentry)
        THEN u32(counters.context_in_index + 1) ELSE counters.context_in_index,
     context_out_index |->
        IF is_context_output_op(eentry)
        THEN u32(counters.context_out_index + 1) ELSE counters.context_out_index,
     external_host_call_call_index |->
        IF is_external_host_call(eentry)
        THEN u32(counters.external_host_call_call_index + 1)
        ELSE counters.external_host_call_call_index,
     rest_mops |-> u32(counters.rest_mops - memory_writing_ops(eentry)),
     jops |-> counters.jops - jops_of(eentry)]

\* fold_step that adds the memory writing operations of the step to rest_mops
fold_step_mops_up(counters, eentry) ==
    [host_public_inputs |->
        IF is_host_public_input(eentry)
        THEN u32(counters.host_public_inputs + 1) ELSE counters.host_public_inputs,
     context_in_index |->
        IF is_context_input_op(eentry)
        THEN u32(counters.context_in_index + 1) ELSE counters.context_in_index,
     context_out_index |->
        IF is_context_output_op(eentry)
        THEN u32(counters.context_out_index + 1) ELSE counters.context_out_index,
     external_host_call_call_index |->
        IF is_external_host_call(eentry)
        THEN u32(counters.external_host_call_call_index + 1)
        ELSE counters.external_host_call_call_index,
     rest_mops |-> u32(counters.rest_mops + memory_writing_ops(eentry)),
     jops |-> IF continuation THEN counters.jops + jops_of(eentry)
              ELSE counters.jops - jops_of(eentry)]

\* the running counters of the fold after the step eentry
fold_step(counters, eentry) ==
    [host_public_inputs |->
        IF is_host_public_input(eentry)
        THEN u32(counters.host_public_inputs + 1) ELSE counters.host_public_inputs,
     context_in_index |->
        IF is_context_input_op(eentry)
        THEN u32(counters.context_in_index + 1) ELSE counters.context_in_index,
     context_out_index |->
        IF is_context_output_op(eentry)
        THEN u32(counters.context_out_index + 1) ELSE counters.context_out_index,
     external_host_call_call_index |->
        IF is_external_host_call(eentry)
        THEN u32(counters.external_host_call_call_index + 1)
        ELSE counters.external_host_call_call_index,
     rest_mops |-> u32(counters.rest_mops - memory_writing_ops(eentry)),
     jops |-> IF continuation THEN counters.jops + jops_of(eentry)
              ELSE counters.jops - jops_of(eentry)]

\* the assert_eq! of assign_entries without the last one
post_asserts_but_last(post, counters) ==
    /\ post.host_public_inputs = counters.host_public_inputs
    /\ post.context_in_index = counters.context_in_index
    /\ post.context_out_index = counters.context_out_index

\* the four assert_eq! of assign_entries hold
post_asserts_hold(post, counters) ==
    /\ post.host_public_inputs = counters.host_public_inputs
    /\ post.context_in_index = counters.context_in_index
    /\ post.context_out_index = counters.context_out_index
    /\ post.external_host_call_call_index = counters.external_host_call_call_index

\* terminate_status
terminate_status(post, counters) ==
    Status(post.eid, post.fid, post.iid, post.sp, post.frame_id, post.initial_memory_pages,
           [counters EXCEPT
              !.host_public_inputs = post.host_public_inputs,
              !.context_in_index = post.context_in_index,
              !.context_out_index = post.context_out_index,
              !.external_host_call_call_index = post.external_host_call_call_index])

\* step_state with the eid of the step as frame_id
step_state_frame_is_eid(eentry, snapshot) ==
    InitializationState(eentry.eid, eentry.fid, eentry.iid, eentry.eid, eentry.sp,
                        snapshot.host_public_inputs, snapshot.context_in_index,
                        snapshot.context_out_index, snapshot.external_host_call_call_index,
                        eentry.allocated_memory_pages, MaximalMemoryPages, snapshot.jops)

\* the state assign_entries places on the row of a step
step_state(eentry, snapshot) ==
    InitializationState(eentry.eid, eentry.fid, eentry.iid, eentry.last_jump_eid, eentry.sp,
                        snapshot.host_public_inputs, snapshot.context_in_index,
                        snapshot.context_out_index, snapshot.external_host_call_call_index,
                        eentry.allocated_memory_pages, MaximalMemoryPages, snapshot.jops)

\* entry_offset without the rows of a step
entry_offset_unscaled(index) == index

\* the row at which the closure of the step index starts
entry_offset(index) == EVENT_TABLE_ENTRY_ROWS * index

\* place_entry that hands the snapshot of the step as current and as next
place_entry_next_is_current(reg, index, eentry, snapshots) ==
    LET offset == entry_offset(index)
        r1 == AssignCell(reg, offset, "op_cell", eentry.opcode)
        r2 == AssignCell(r1, offset, "enabled_cell", 1)
        r3 == AssignCell(r2, offset, "rest_mops_cell", snapshots[index + 1].rest_mops)
        r4 == AssignCell(r3, offset, "itable_lookup_cell", eentry.opcode)
        r5 == AssignCell(r4, offset, "jops_cell", snapshots[index + 1].jops)
        r6 == AssignCell(r5, offset, "step_status",
                         [current |-> snapshots[index + 1], next |-> snapshots[index + 1]])
    IN  assign_step_state(r6, offset, step_state(eentry, snapshots[index + 1]))

\* the closure of par_iter().enumerate().for_each for one step
place_entry(reg, index, eentry, snapshots) ==
    LET offset == entry_offset(index)
        r1 == AssignCell(reg, offset, "op_cell", eentry.opcode)
        r2 == AssignCell(r1, offset, "enabled_cell", 1)
        r3 == AssignCell(r2, offset, "rest_mops_cell", snapshots[index + 1].rest_mops)
        r4 == AssignCell(r3, offset, "itable_lookup_cell", eentry.opcode)
        r5 == AssignCell(r4, offset, "jops_cell", snapshots[index + 1].jops)
        r6 == AssignCell(r5, offset, "step_status",
                         [current |-> snapshots[index + 1], next |-> snapshots[index + 2]])
    IN  assign_step_state(r6, offset, step_state(eentry, snapshots[index + 1]))

\* assign_padding_and_post_initialization_state without the row after the loop
RECURSIVE assign_padding_without_final_row(_, _, _, _)
assign_padding_without_final_row(reg, offset, cap, state) ==
    IF offset < cap * EVENT_TABLE_ENTRY_ROWS
    THEN assign_padding_without_final_row(
             assign_step_state(reg, offset, state), offset + EVENT_TABLE_ENTRY_ROWS,
             cap, state)
    ELSE reg

\* assign_padding_and_post_initialization_state(ctx, state) with ctx.offset = offset
RECURSIVE assign_padding_and_post_initialization_state(_, _, _, _)
assign_padding_and_post_initialization_state(reg, offset, cap, state) ==
    IF offset < cap * EVENT_TABLE_ENTRY_ROWS
    THEN assign_padding_and_post_initialization_state(
             assign_step_state(reg, offset, state), offset + EVENT_TABLE_ENTRY_ROWS,
             cap, state)
    ELSE assign_step_state(reg, offset, state)

(***************************************************************************)
(* assign()                                                                 *)
(***************************************************************************)
\* the capacity test, off by one
capability_holds_one_more(len, cap) == len <= cap + 1

\* event_table.0.len() <= self.capability
capability_holds(len, cap) == len <= cap

\* assert!(event_table.0.len() <= self.capability)
CheckCapability ==
    /\ apc = "start"
    /\ apc' = IF capability_holds(Len(slice), capability) THEN "init" ELSE "panicked"
    /\ UNCHANGED <<continuation, memvars, chainvars, statevars, capability, slice, initialization_state,
                   post_initialization_state, region, rest_ops, fold, status, placed>>

\* self.init(&mut ctx)
InitRegion ==
    /\ apc = "init"
    /\ region' = init(region, capability)
    /\ apc' = "pre"
    /\ UNCHANGED <<continuation, memvars, chainvars, statevars, capability, slice, initialization_state,
                   post_initialization_state, rest_ops, fold, status, placed>>

\* self.assign_step_state(&mut ctx, initialization_state), then
\* assign_rest_ops_first_step and compute_rest_mops_and_jops
AssignPreState ==
    /\ apc = "pre"
    /\ region' = assign_rest_ops_first_step(assign_step_state(region, 0, initialization_state))
    /\ rest_ops' = compute_rest_mops_and_jops(slice, initialization_state)
    /\ apc' = "entries"
    /\ UNCHANGED <<continuation, memvars, chainvars, statevars, capability, slice, initialization_state,
                   post_initialization_state, fold, status, placed>>

\* the test of the early return, never true
without_witness_never(len) == FALSE

\* event_table.0.len() == 0: without_witness
without_witness(len) == len = 0

\* assign_entries: the early return of an empty slice, or the start of the fold
EnterEntries ==
    /\ apc = "entries"
    /\ IF without_witness(Len(slice))
       THEN apc' = "padding" /\ UNCHANGED fold
       ELSE /\ apc' = "fold"
            /\ fold' = fold_start(initialization_state, rest_ops[1], rest_ops[2])
    /\ UNCHANGED <<continuation, memvars, chainvars, statevars, capability, slice, initialization_state,
                   post_initialization_state, region, rest_ops, status, placed>>

\* one step of the map over event_table.0.iter()
FoldStep ==
    /\ apc = "fold"
    /\ Len(status) < Len(slice)
    /\ LET eentry == slice[Len(status) + 1]
       IN  /\ status' = Append(status,
                 Status(eentry.eid, eentry.fid, eentry.iid, eentry.sp, eentry.last_jump_eid,
                        eentry.allocated_memory_pages, fold))
           /\ fold' = fold_step(fold, eentry)
    /\ UNCHANGED <<continuation, memvars, chainvars, statevars, capability, slice, initialization_state,
                   post_initialization_state, apc, region, rest_ops, placed>>

\* collected that does not wait for the end of the map
collected_any(statuses, entries) == TRUE

\* .collect::<Vec<_>>(): the map has emitted the snapshot of every step
collected(statuses, entries) == Len(statuses) = Len(entries)

\* the assert_eq! on the cursors, then status.push(terminate_status)
AssertPost ==
    /\ apc = "fold"
    /\ collected(status, slice)
    /\ IF post_asserts_hold(post_initialization_state, fold)
       THEN /\ status' = Append(status, terminate_status(post_initialization_state, fold))
            /\ apc' = "place"
       ELSE /\ apc' = "panicked"
            /\ UNCHANGED status
    /\ UNCHANGED <<continuation, memvars, chainvars, statevars, capability, slice, initialization_state,
                   post_initialization_state, region, rest_ops, fold, placed>>

\* a worker of par_iter runs the closure of one step
PlaceEntry ==
    /\ apc = "place"
    /\ \E index \in (0..(Len(slice) - 1)) \ placed :
          /\ region' = place_entry(region, index, slice[index + 1], status)
          /\ placed' = placed \cup {index}
    /\ UNCHANGED <<continuation, memvars, chainvars, statevars, capability, slice, initialization_state,
                   post_initialization_state, apc, rest_ops, fold, status>>

\* for_each returns once every closure has run
JoinEntries ==
    /\ apc = "place"
    /\ placed = 0..(Len(slice) - 1)
    /\ apc' = "padding"
    /\ UNCHANGED <<continuation, memvars, chainvars, statevars, capability, slice, initialization_state,
                   post_initialization_state, region, rest_ops, fold, status, placed>>

\* ctx.step(EVENT_TABLE_ENTRY_ROWS * len), then
\* assign_padding_and_post_initialization_state
AssignPadding ==
    /\ apc = "padding"
    /\ region' = assign_padding_and_post_initialization_state(
                    region, EVENT_TABLE_ENTRY_ROWS * Len(slice), capability,
                    post_initialization_state)
    /\ apc' = "done"
    /\ UNCHANGED <<continuation, memvars, chainvars, statevars, capability, slice, initialization_state,
                   post_initialization_state, rest_ops, fold, status, placed>>

NextAssign ==
    \/ CheckCapability
    \/ InitRegion
    \/ AssignPreState
    \/ EnterEntries
    \/ FoldStep
    \/ AssertPost
    \/ PlaceEntry
    \/ JoinEntries
    \/ AssignPadding

SpecAssign == InitAssign /\ [][NextAssign]_vars

(***************************************************************************)
(* The fold over a step sequence and over its two slices                    *)
(***************************************************************************)
\* the running counters after the fold of assign_entries over all the steps,
\* started as assign() starts it
fold_entries(state, entries) ==
    LET ops == compute_rest_mops_and_jops(entries, state)
        RECURSIVE run(_, _)
        run(counters, i) ==
            IF i > Len(entries) THEN counters
            ELSE run(fold_step(counters, entries[i]), i + 1)
    IN  run(fold_start(state, ops[1], ops[2]), 1)

\* the pre-checkpoint of the slice that follows a slice: the state after its
\* steps, with the terminal counters of its fold
chain_pre(state, entries, counters) ==
    InitializationState(
        state.eid + Len(entries), state.fid, state.iid + Len(entries), state.frame_id,
        state.sp - Len(entries),
        counters.host_public_inputs, counters.context_in_index, counters.context_out_index,
        counters.external_host_call_call_index,
        state.initial_memory_pages, state.maximal_memory_pages, counters.jops)

SliceA == SubSeq(slice, 1, cut)

SliceB == SubSeq(slice, cut + 1, Len(slice))

InitChain ==
    /\ continuation \in BOOLEAN
    /\ MemIdle
    /\ capability = 0
    /\ initialization_state \in PreStates
    /\ slice \in Slices(initialization_state)
    /\ post_initialization_state = <<>>
    /\ apc = "idle"
    /\ region = NoRegion
    /\ rest_ops = NoRestOps
    /\ fold = NoFold
    /\ status = <<>>
    /\ placed = {}
    /\ cut \in 0..Len(slice)
    /\ chain = [uncut |-> NoFold, a |-> NoFold, b |-> NoFold]
    /\ fields = NoFields

\* the fold over the uncut sequence, in one pass
FoldUncut ==
    /\ chain.uncut = NoFold
    /\ chain' = [chain EXCEPT !.uncut = fold_entries(initialization_state, slice)]
    /\ UNCHANGED <<continuation, memvars, assignvars, statevars, cut>>

\* the fold over the first slice
FoldSliceA ==
    /\ chain.a = NoFold
    /\ chain' = [chain EXCEPT !.a = fold_entries(initialization_state, SliceA)]
    /\ UNCHANGED <<continuation, memvars, assignvars, statevars, cut>>

\* the fold over the second slice, from the terminal counters of the first
FoldSliceB ==
    /\ chain.a # NoFold
    /\ chain.b = NoFold
    /\ chain' = [chain EXCEPT
                   !.b = fold_entries(chain_pre(initialization_state, SliceA, chain.a),
                                      SliceB)]
    /\ UNCHANGED <<continuation, memvars, assignvars, statevars, cut>>

NextChain == FoldUncut \/ FoldSliceA \/ FoldSliceB

SpecChain == InitChain /\ [][NextChain]_vars

(***************************************************************************)
(* InitializationState: plain, field_count, zip_for_each, map              *)
(***************************************************************************)
\* Checkpoint Vectors whose fields all differ, so that an order is visible
StateSamples ==
    {InitializationState(1, 2, 3, 4, 5, 6, 7, 8, 9, 10, 11, 12),
     InitializationState(24, 23, 22, 21, 20, 19, 18, 17, 16, 15, 14, 13)}

field_count == IF continuation THEN 12 ELSE 11

plain_jops_first(state) ==
    (IF continuation THEN <<state.jops>> ELSE <<>>)
    \o <<state.eid, state.fid, state.iid, state.frame_id, state.sp,
         state.host_public_inputs, state.context_in_index, state.context_out_index,
         state.external_host_call_call_index, state.initial_memory_pages,
         state.maximal_memory_pages>>

\* the vector the pushes build
plain(state) ==
    LET v0  == <<>>
        v1  == Append(v0, state.eid)
        v2  == Append(v1, state.fid)
        v3  == Append(v2, state.iid)
        v4  == Append(v3, state.frame_id)
        v5  == Append(v4, state.sp)
        v6  == Append(v5, state.host_public_inputs)
        v7  == Append(v6, state.context_in_index)
        v8  == Append(v7, state.context_out_index)
        v9  == Append(v8, state.external_host_call_call_index)
        v10 == Append(v9, state.initial_memory_pages)
        v11 == Append(v10, state.maximal_memory_pages)
    IN  IF continuation THEN Append(v11, state.jops) ELSE v11

zip_for_each_skip_sp(self, other, fail_at) ==
    LET all == <<<<self.eid, other.eid>>, <<self.fid, other.fid>>, <<self.iid, other.iid>>,
                 <<self.frame_id, other.frame_id>>,
                 <<self.host_public_inputs, other.host_public_inputs>>,
                 <<self.context_in_index, other.context_in_index>>,
                 <<self.context_out_index, other.context_out_index>>,
                 <<self.external_host_call_call_index, other.external_host_call_call_index>>,
                 <<self.initial_memory_pages, other.initial_memory_pages>>,
                 <<self.maximal_memory_pages, other.maximal_memory_pages>>>>
                \o (IF continuation THEN <<<<self.jops, other.jops>>>> ELSE <<>>)
    IN  IF fail_at \in 1..Len(all)
        THEN [calls |-> SubSeq(all, 1, fail_at), result |-> "Err"]
        ELSE [calls |-> all, result |-> "Ok"]

\* the calls of the closure, in order; the call numbered fail_at returns Err
\* and the ? ends the traversal there (fail_at = 0: every call returns Ok)
zip_for_each(self, other, fail_at) ==
    LET all == <<<<self.eid, other.eid>>, <<self.fid, other.fid>>, <<self.iid, other.iid>>,
                 <<self.frame_id, other.frame_id>>, <<self.sp, other.sp>>,
                 <<self.host_public_inputs, other.host_public_inputs>>,
                 <<self.context_in_index, other.context_in_index>>,
                 <<self.context_out_index, other.context_out_index>>,
                 <<self.external_host_call_call_index, other.external_host_call_call_index>>,
                 <<self.initial_memory_pages, other.initial_memory_pages>>,
                 <<self.maximal_memory_pages, other.maximal_memory_pages>>>>
                \o (IF continuation THEN <<<<self.jops, other.jops>>>> ELSE <<>>)
    IN  IF fail_at \in 1..Len(all)
        THEN [calls |-> SubSeq(all, 1, fail_at), result |-> "Err"]
        ELSE [calls |-> all, result |-> "Ok"]

map_pages_swapped(state) ==
    LET calls == <<[closure |-> "f", value |-> state.eid],
                   [closure |-> "f", value |-> state.fid],
                   [closure |-> "f", value |-> state.iid],
                   [closure |-> "f", value |-> state.frame_id],
                   [closure |-> "f", value |-> state.sp],
                   [closure |-> "f", value |-> state.host_public_inputs],
                   [closure |-> "f", value |-> state.context_in_index],
                   [closure |-> "f", value |-> state.context_out_index],
                   [closure |-> "f", value |-> state.external_host_call_call_index],
                   [closure |-> "f", value |-> state.maximal_memory_pages],
                   [closure |-> "f", value |-> state.initial_memory_pages]>>
                  \o (IF continuation THEN <<[closure |-> "g", value |-> state.jops]>>
                                      ELSE <<>>)
    IN  [calls |-> calls,
         result |-> [name \in DOMAIN state |->
                        [closure |-> IF name = "jops" THEN "g" ELSE "f",
                         value |-> state[name]]]]

\* the fields of the struct literal are evaluated in the order written: f on
\* every field of type T, g on jops; the result holds each closure's value
map(state) ==
    LET calls == <<[closure |-> "f", value |-> state.eid],
                   [closure |-> "f", value |-> state.fid],
                   [closure |-> "f", value |-> state.iid],
                   [closure |-> "f", value |-> state.frame_id],
                   [closure |-> "f", value |-> state.sp],
                   [closure |-> "f", value |-> state.host_public_inputs],
                   [closure |-> "f", value |-> state.context_in_index],
                   [closure |-> "f", value |-> state.context_out_index],
                   [closure |-> "f", value |-> state.external_host_call_call_index],
                   [closure |-> "f", value |-> state.initial_memory_pages],
                   [closure |-> "f", value |-> state.maximal_memory_pages]>>
                  \o (IF continuation THEN <<[closure |-> "g", value |-> state.jops]>>
                                      ELSE <<>>)
    IN  [calls |-> calls,
         result |-> [name \in DOMAIN state |->
                        [closure |-> IF name = "jops" THEN "g" ELSE "f",
                         value |-> state[name]]]]

\* the results before anything has been applied to the vectors
NotApplied == [plain |-> <<>>, zipped |-> [calls |-> <<>>, result |-> "none"],
               mapped |-> [calls |-> <<>>, result |-> <<>>]]

InitState ==
    /\ continuation \in BOOLEAN
    /\ MemIdle
    /\ AssignIdle
    /\ ChainIdle
    /\ \E self \in StateSamples, other \in StateSamples, fail_at \in 0..field_count :
          fields = [self |-> self, other |-> other, fail_at |-> fail_at,
                    applied |-> {}, plain |-> NotApplied.plain,
                    zipped |-> NotApplied.zipped, mapped |-> NotApplied.mapped]

Plain ==
    /\ fields # NoFields
    /\ "plain" \notin fields.applied
    /\ fields' = [fields EXCEPT !.plain = plain(fields.self),
                                !.applied = @ \cup {"plain"}]
    /\ UNCHANGED <<continuation, memvars, assignvars, chainvars>>

ZipForEach ==
    /\ fields # NoFields
    /\ "zip_for_each" \notin fields.applied
    /\ fields' = [fields EXCEPT !.zipped = zip_for_each(fields.self, fields.other, fields.fail_at),
                                !.applied = @ \cup {"zip_for_each"}]
    /\ UNCHANGED <<continuation, memvars, assignvars, chainvars>>

Map ==
    /\ fields # NoFields
    /\ "map" \notin fields.applied
    /\ fields' = [fields EXCEPT !.mapped = map(fields.self),
                                !.applied = @ \cup {"map"}]
    /\ UNCHANGED <<continuation, memvars, assignvars, chainvars>>

NextState == Plain \/ ZipForEach \/ Map

SpecState == InitState /\ [][NextState]_vars

(***************************************************************************)
(* Notions the properties are stated with                                   *)
(***************************************************************************)
CellOf(e) == <<e.ltype, e.offset>>

NonReads(value) == SelectSeq(value, LAMBDA entry : entry.atype # "Read")

\* the non-Read accesses are grouped by cell, in non-decreasing eid in a cell
GroupedNonReads(value) ==
    LET w == NonReads(value)
    IN  \A i \in 1..Len(w) : \A j \in i..Len(w) :
            CellOf(w[i]) = CellOf(w[j]) =>
                /\ \A m \in i..j : CellOf(w[m]) = CellOf(w[i])
                /\ w[i].eid <= w[j].eid

\* the resolved list is grouped by cell
GroupedByCell(table) ==
    \A i \in 1..Len(table) : \A j \in i..Len(table) :
        CellOf(table[i].entry) = CellOf(table[j].entry) =>
            \A m \in i..j : CellOf(table[m].entry) = CellOf(table[i].entry)

\* the positions after i of the resolved entries of the cell of entry i
LaterOfCell(table, i) ==
    {j \in (i + 1)..Len(table) : CellOf(table[j].entry) = CellOf(table[i].entry)}

SetMin(S) == CHOOSE x \in S : \A y \in S : x <= y

Resolved == pc # "trace"

(***************************************************************************)
(* C1: the resolved entries of a cell form a chain                          *)
(***************************************************************************)
\* C1: when the non-Read accesses of the trace are grouped by cell and in
\* non-decreasing eid in each cell, every resolved entry ends where the next
\* resolved entry of its cell starts, the last one of a cell ends at the
\* sentinel, and every interval is non-empty (no overlap, no gap).
C1_IntervalChain ==
    (Resolved /\ GroupedNonReads(mtable)) =>
        \A i \in 1..Len(memory_writing_table) :
            LET e == memory_writing_table[i]
                later == LaterOfCell(memory_writing_table, i)
            IN  /\ e.entry.eid < e.end_eid
                /\ IF later = {}
                   THEN e.end_eid = maximal_eid(K)
                   ELSE e.end_eid = memory_writing_table[SetMin(later)].entry.eid

\* a resolved table with two entries of one cell, after a vacuous one was dropped
C1_Witness ==
    /\ Resolved
    /\ GroupedNonReads(mtable)
    /\ Len(memory_writing_table) < Len(NonReads(mtable))
    /\ \E i \in 1..Len(memory_writing_table) : LaterOfCell(memory_writing_table, i) # {}

(***************************************************************************)
(* C2, C3: the queries of new()                                             *)
(***************************************************************************)
Joined == pc \in {"joined", "panicked"}

\* the intervals the resolved table holds for a cell
IntervalsOf(table, cell) ==
    {<<table[i].entry.eid, table[i].end_eid>> :
        i \in {m \in 1..Len(table) : CellOf(table[m].entry) = cell}}

\* the eids of the non-Read accesses of the trace to a cell, in trace order
WriteEidsOf(value, cell) ==
    LET own == SelectSeq(NonReads(value), LAMBDA entry : CellOf(entry) = cell)
    IN  [i \in 1..Len(own) |-> own[i].eid]

\* the query new() makes for access j of step i
QueryOf(i, j) ==
    LET eentry == event_table[i]
        mentry == memory_event_of_step(eentry)[j]
    IN  lookup_mtable_eid(build_lookup_mapping(memory_writing_table), eentry.eid,
                          mentry.ltype, mentry.offset, mentry.atype = "Write")

\* what new() returned holds, for access j of step i, the interval r
JoinedHolds(i, j, r) ==
    joined.panicked \/
        /\ joined.entries[i].memory_rw_entires[j].start_eid = r.start_eid
        /\ joined.entries[i].memory_rw_entires[j].end_eid = r.end_eid

\* C2: a read by a step at eid of a cell that has a writing entry with a
\* strictly smaller eid resolves to the one interval of the cell with
\* start_eid < eid <= end_eid; after writes at eid 1 and 5, a read at eid 3
\* resolves to (1, 5) and a read at eid 7 to (5, sentinel).
C2_ReadResolves ==
    Joined =>
        \A i \in 1..Len(event_table) : \A j \in 1..Len(memory_event_of_step(event_table[i])) :
            LET eid == event_table[i].eid
                mentry == memory_event_of_step(event_table[i])[j]
                cell == CellOf(mentry)
                r == QueryOf(i, j)
                eids == WriteEidsOf(mtable, cell)
            IN  (mentry.atype = "Read" /\ \E m \in 1..Len(eids) : eids[m] < eid) =>
                    /\ r.ok
                    /\ <<r.start_eid, r.end_eid>> \in IntervalsOf(memory_writing_table, cell)
                    /\ r.start_eid < eid /\ eid <= r.end_eid
                    /\ \A rec \in IntervalsOf(memory_writing_table, cell) :
                          (rec[1] < eid /\ eid <= rec[2]) => rec = <<r.start_eid, r.end_eid>>
                    /\ JoinedHolds(i, j, r)
                    /\ (eids = <<1, 5>> /\ eid = 3) => (r.start_eid = 1 /\ r.end_eid = 5)
                    /\ (eids = <<1, 5>> /\ eid = 7) =>
                          (r.start_eid = 5 /\ r.end_eid = maximal_eid(K))

\* new() has returned a read at eid 3 joined with (1, 5), between writes at 1 and 5
C2_Witness ==
    /\ pc = "joined"
    /\ \E i \in 1..Len(event_table) : \E j \in 1..Len(memory_event_of_step(event_table[i])) :
          /\ event_table[i].eid = 3
          /\ memory_event_of_step(event_table[i])[j].atype = "Read"
          /\ WriteEidsOf(mtable, CellOf(memory_event_of_step(event_table[i])[j])) = <<1, 5>>
          /\ joined.entries[i].memory_rw_entires[j].start_eid = 1
          /\ joined.entries[i].memory_rw_entires[j].end_eid = 5

\* the second half of the example: a read at eid 7, after the last write
C2_WitnessAfterLastWrite ==
    /\ pc = "joined"
    /\ \E i \in 1..Len(event_table) : \E j \in 1..Len(memory_event_of_step(event_table[i])) :
          /\ event_table[i].eid = 7
          /\ memory_event_of_step(event_table[i])[j].atype = "Read"
          /\ WriteEidsOf(mtable, CellOf(memory_event_of_step(event_table[i])[j])) = <<1, 5>>
          /\ joined.entries[i].memory_rw_entires[j].start_eid = 5
          /\ joined.entries[i].memory_rw_entires[j].end_eid = maximal_eid(K)

\* C3: every Write access of a step at eid resolves to an interval of its
\* cell that starts at eid, also when the step writes the cell several times
\* and the earlier of these writes were dropped as vacuous.
C3_WriteResolves ==
    Joined =>
        \A i \in 1..Len(event_table) : \A j \in 1..Len(memory_event_of_step(event_table[i])) :
            LET eid == event_table[i].eid
                mentry == memory_event_of_step(event_table[i])[j]
                r == QueryOf(i, j)
            IN  mentry.atype = "Write" =>
                    /\ r.ok
                    /\ r.start_eid = eid
                    /\ <<r.start_eid, r.end_eid>> \in
                          IntervalsOf(memory_writing_table, CellOf(mentry))
                    /\ JoinedHolds(i, j, r)

\* new() has returned for a step that writes one cell twice
C3_Witness ==
    /\ pc = "joined"
    /\ Len(memory_writing_table) < Len(NonReads(mtable))
    /\ \E i \in 1..Len(event_table) :
          LET mem == memory_event_of_step(event_table[i])
          IN  \E j1 \in 1..Len(mem) : \E j2 \in (j1 + 1)..Len(mem) :
                /\ mem[j1].atype = "Write" /\ mem[j2].atype = "Write"
                /\ CellOf(mem[j1]) = CellOf(mem[j2])
                /\ joined.entries[i].memory_rw_entires[j1].start_eid = event_table[i].eid
                /\ joined.entries[i].memory_rw_entires[j1]
                      = [joined.entries[i].memory_rw_entires[j2] EXCEPT !.entry = mem[j1]]

(***************************************************************************)
(* C4: vacuous entries                                                      *)
(***************************************************************************)
\* the positions of the non-Read accesses that the next non-Read access
\* supersedes at the same eid, in the same cell
Superseded(value) ==
    LET w == NonReads(value)
    IN  {i \in 1..(Len(w) - 1) :
            CellOf(w[i]) = CellOf(w[i + 1]) /\ w[i].eid = w[i + 1].eid}

\* C4: no resolved entry has eid = end_eid; a write that the next non-Read
\* access supersedes in the same cell at the same eid is neither in the table
\* nor in the lookup index built from it.
C4_NoVacuousEntry ==
    Resolved =>
        LET lookup == build_lookup_mapping(memory_writing_table)
        IN  /\ \A i \in 1..Len(memory_writing_table) :
                  memory_writing_table[i].entry.eid # memory_writing_table[i].end_eid
            /\ \A i \in Superseded(mtable) : \A m \in 1..Len(memory_writing_table) :
                  memory_writing_table[m].index # i - 1
            /\ \A key \in DOMAIN lookup :
                  /\ \A m \in 1..Len(lookup[key]) : lookup[key][m][1] # lookup[key][m][2]
                  /\ Len(lookup[key]) =
                        Cardinality({m \in 1..Len(memory_writing_table) :
                                        CellOf(memory_writing_table[m].entry) = key})

\* a write at eid 2 followed by another write to the same cell at eid 2
C4_Witness ==
    /\ Resolved
    /\ \E i \in Superseded(mtable) :
          /\ NonReads(mtable)[i].atype = "Write"
          /\ NonReads(mtable)[i + 1].atype = "Write"
          /\ NonReads(mtable)[i].eid = 2

(***************************************************************************)
(* C5: finalize counting                                                    *)
(***************************************************************************)
Counted == pc \in {"counted", "joined", "panicked"}

CellsIn(table) == {CellOf(table[i].entry) : i \in 1..Len(table)}

\* the positions of the last entries of the cells of the resolved list
LastEntries(table) == {i \in 1..Len(table) : LaterOfCell(table, i) = {}}

EntriesOfCell(table, cell) == {i \in 1..Len(table) : CellOf(table[i].entry) = cell}

\* three cells with one, two and three resolved entries, each last one a Write
OneTwoThree(table) ==
    /\ \A i \in LastEntries(table) : table[i].entry.atype = "Write"
    /\ {Cardinality(EntriesOfCell(table, cell)) : cell \in CellsIn(table)} = {1, 2, 3}
    /\ Cardinality(CellsIn(table)) = 3

\* C5 as claimed: on a resolved list grouped by cell the count is one per cell
\* that occurs in the list, and the set holds every such cell.
C5_OnePerCell ==
    (Counted /\ GroupedByCell(memory_writing_table)) =>
        /\ finalize.count = Cardinality(CellsIn(memory_writing_table))
        /\ finalize.set = CellsIn(memory_writing_table)

\* C5, amended: on a resolved list grouped by cell the count is one per cell
\* whose last entry is a Write access, that last entry being the one counted,
\* and the set holds exactly these cells; a cell whose last entry is an Init
\* access is not counted.  For three cells with one, two and three entries,
\* the last of each a Write, the count is 3.
C5_OnePerWrittenCell ==
    (Counted /\ GroupedByCell(memory_writing_table)) =>
        LET last == {i \in LastEntries(memory_writing_table) :
                        memory_writing_table[i].entry.atype = "Write"}
        IN  /\ finalize.count = Cardinality(last)
            /\ finalize.set = {CellOf(memory_writing_table[i].entry) : i \in last}
            /\ OneTwoThree(memory_writing_table) => finalize.count = 3

\* the count of three cells with one, two and three entries has been taken
C5_Witness ==
    /\ Counted
    /\ GroupedByCell(memory_writing_table)
    /\ OneTwoThree(memory_writing_table)
    /\ finalize.count = 3
    /\ Cardinality(finalize.set) = 3

(***************************************************************************)
(* C6 - C8: the counters of the snapshots                                   *)
(***************************************************************************)
\* the fold has run over every step of a slice that has steps
FoldDone == apc \in {"fold", "place", "padding", "done", "panicked"}
            /\ fold # NoFold /\ Len(status) >= Len(slice)

Cursors ==
    {"host_public_inputs", "context_in_index", "context_out_index",
     "external_host_call_call_index"}

\* the predicate of the opcode classification that belongs to a cursor
CursorPredicate(cursor, eentry) ==
    CASE cursor = "host_public_inputs" -> is_host_public_input(eentry)
      [] cursor = "context_in_index" -> is_context_input_op(eentry)
      [] cursor = "context_out_index" -> is_context_output_op(eentry)
      [] cursor = "external_host_call_call_index" -> is_external_host_call(eentry)

\* the values of the counters after step i (from 1) of the slice: those of the
\* next snapshot, or the running ones while that snapshot is not yet emitted
After(i) == IF i < Len(status) THEN status[i + 1] ELSE fold

\* C6: a cursor never decreases from a snapshot to the next, rises by exactly
\* 1 across a step iff the predicate of the step for this cursor is true, and
\* after the last step is its pre-checkpoint value plus the number of steps
\* whose predicate is true.
C6_CursorsCount ==
    (apc \in {"fold", "place", "padding", "done", "panicked"} /\ fold # NoFold) =>
        \A cursor \in Cursors :
            /\ \A i \in 1..Len(status) : i <= Len(slice) =>
                  /\ After(i)[cursor] >= status[i][cursor]
                  /\ (After(i)[cursor] = status[i][cursor] + 1)
                        <=> CursorPredicate(cursor, slice[i])
                  /\ After(i)[cursor] - status[i][cursor] \in {0, 1}
            /\ Len(status) >= 1 => status[1][cursor] = initialization_state[cursor]
            /\ FoldDone =>
                  fold[cursor] = initialization_state[cursor]
                      + Cardinality({i \in 1..Len(slice) : CursorPredicate(cursor, slice[i])})

\* the fold is over for a slice in which a cursor rose across one step and
\* kept its value across another
C6_Witness ==
    /\ apc = "place"
    /\ Len(status) = Len(slice) + 1
    /\ \E i \in 1..Len(slice) : \E j \in 1..Len(slice) :
          /\ status[i + 1].context_in_index = status[i].context_in_index + 1
          /\ status[j + 1].context_in_index = status[j].context_in_index
          /\ status[1].context_in_index = 2

\* C7: rest_mops of a snapshot is the number of memory writing operations of
\* the steps from this one on: the first snapshot holds the sum over the
\* slice, no subtraction of the fold underflows, the terminal snapshot holds 0.
C7_RestMops ==
    (apc \in {"fold", "place", "padding", "done", "panicked"} /\ fold # NoFold) =>
        /\ \A i \in 1..Len(status) :
              /\ status[i].rest_mops = SumMops(SubSeq(slice, i, Len(slice)))
              /\ status[i].rest_mops >= 0
              /\ i <= Len(slice) => status[i].rest_mops >= memory_writing_ops(slice[i])
        /\ Len(status) >= 1 => status[1].rest_mops = SumMops(slice)
        /\ Len(status) = Len(slice) + 1 => status[Len(status)].rest_mops = 0
        /\ FoldDone => fold.rest_mops = 0

\* the terminal snapshot of a slice that owes three or more operations
C7_Witness ==
    /\ apc = "done"
    /\ Len(status) = Len(slice) + 1
    /\ status[1].rest_mops >= 3
    /\ status[Len(status)].rest_mops = 0
    /\ \E i \in 1..Len(slice) : status[i].rest_mops - status[i + 1].rest_mops = 2

\* C8: under continuation the snapshot of step i holds the jops of the
\* pre-checkpoint plus the jops of the steps before it; otherwise it holds
\* the jops of the steps from it on, and the terminal snapshot holds 0.
C8_JopsDirection ==
    (apc \in {"fold", "place", "padding", "done", "panicked"} /\ fold # NoFold) =>
        /\ \A i \in 1..Len(status) :
              status[i].jops =
                  IF continuation
                  THEN initialization_state.jops + SumJops(SubSeq(slice, 1, i - 1))
                  ELSE SumJops(SubSeq(slice, i, Len(slice)))
        /\ (~continuation /\ Len(status) = Len(slice) + 1) => status[Len(status)].jops = 0

\* under continuation: the terminal snapshot, above a pre-checkpoint with jops
C8_Witness ==
    /\ continuation
    /\ apc = "done"
    /\ Len(status) = Len(slice) + 1
    /\ initialization_state.jops = 3
    /\ status[1].jops = 3
    /\ status[Len(status)].jops = 5

\* without continuation: the count down to 0
C8_WitnessCountDown ==
    /\ ~continuation
    /\ apc = "done"
    /\ Len(status) = Len(slice) + 1
    /\ status[1].jops = 2
    /\ status[Len(status)].jops = 0

(***************************************************************************)
(* C9, C10: the fatal failures of assign()                                  *)
(***************************************************************************)
\* a row of a step has been placed
StepRowPlaced == \E x \in DOMAIN region : x[2] = "enabled_cell"

\* after the fold a cursor differs from the expected post-checkpoint
CursorMismatch ==
    /\ FoldDone
    /\ \E cursor \in Cursors : fold[cursor] # post_initialization_state[cursor]

\* C9: when after the fold of a slice with steps a cursor differs from the
\* same field of the expected post-checkpoint, the assertion fails, no row
\* of a step is placed, and the assignment never goes on to completion.
C9_MismatchAborts ==
    CursorMismatch =>
        /\ apc \in {"fold", "panicked"}
        /\ ~post_asserts_hold(post_initialization_state, fold)
        /\ ~StepRowPlaced
        /\ placed = {}
        /\ Len(status) = Len(slice)

\* assign_entries has aborted on a cursor that differs
C9_Witness ==
    /\ apc = "panicked"
    /\ CursorMismatch
    /\ Len(slice) >= 1
    /\ ~StepRowPlaced
    /\ <<0, "eid_cell">> \in DOMAIN region

\* C10: when the slice has more steps than the capacity, assign aborts before
\* any cell is placed.
C10_CapacityAborts ==
    (apc # "idle" /\ Len(slice) > capability) =>
        /\ apc \in {"start", "panicked"}
        /\ region = NoRegion
        /\ status = <<>>

\* assign has aborted on a slice of three steps for a capacity of two
C10_Witness ==
    /\ apc = "panicked"
    /\ Len(slice) > capability
    /\ region = NoRegion

(***************************************************************************)
(* C11: the padding rows and the final row                                  *)
(***************************************************************************)
\* the step rows of the region: row index m is the block at offset
\* EVENT_TABLE_ENTRY_ROWS * m
HasCell(reg, m, column) == <<entry_offset(m), column>> \in DOMAIN reg

CellAt(reg, m, column) == reg[<<entry_offset(m), column>>]

\* the row indices that hold the cells of a state
StateRows(reg) == {x[1] \div EVENT_TABLE_ENTRY_ROWS : x \in {y \in DOMAIN reg : y[2] = "eid_cell"}}

\* the state the cells of assign_step_state hold on row m
RowState(reg, m) ==
    InitializationState(
        CellAt(reg, m, "eid_cell"), CellAt(reg, m, "fid_cell"), CellAt(reg, m, "iid_cell"),
        CellAt(reg, m, "frame_id_cell"), CellAt(reg, m, "sp_cell"),
        CellAt(reg, m, "input_index_cell"), CellAt(reg, m, "context_input_index_cell"),
        CellAt(reg, m, "context_output_index_cell"),
        CellAt(reg, m, "external_host_call_index_cell"),
        CellAt(reg, m, "mpages_cell"), CellAt(reg, m, "maximal_memory_pages_cell"),
        IF continuation THEN CellAt(reg, m, "jops_cell") ELSE 0)

\* the rows that hold a state and are not the row of a step
PaddingRows(reg, cap) ==
    {m \in StateRows(reg) : m < cap /\ ~HasCell(reg, m, "enabled_cell")}

\* the fields the terminal snapshot takes from the expected post-checkpoint
TerminalIsPost(snapshot, state) ==
    /\ snapshot.eid = state.eid /\ snapshot.fid = state.fid /\ snapshot.iid = state.iid
    /\ snapshot.sp = state.sp /\ snapshot.last_jump_eid = state.frame_id
    /\ snapshot.allocated_memory_pages = state.initial_memory_pages
    /\ \A cursor \in Cursors : snapshot[cursor] = state[cursor]

\* C11: once assign has completed for a slice of n steps and a capacity C,
\* the rows n..C-1 (C - n of them) are padding rows, each holds the fields of
\* the expected post-checkpoint, which are the identity and cursor values of
\* the terminal snapshot, and row C is the one row after them and holds the
\* post-checkpoint too; for n = 3 and C = 8 there are 5 padding rows.
C11_PaddingRows ==
    apc = "done" =>
        LET n == Len(slice)
            padding == PaddingRows(region, capability)
        IN  /\ padding = n..(capability - 1)
            /\ Cardinality(padding) = capability - n
            /\ \A m \in padding : RowState(region, m) = post_initialization_state
            /\ StateRows(region) = 0..capability
            /\ ~HasCell(region, capability, "enabled_cell")
            /\ ~HasCell(region, capability, "step_sel")
            /\ RowState(region, capability) = post_initialization_state
            /\ n >= 1 => TerminalIsPost(status[Len(status)], post_initialization_state)
            /\ (n = 3 /\ capability = 8) => Cardinality(padding) = 5

\* assign has completed for three steps and a capacity of 8: five padding rows
C11_Witness ==
    /\ apc = "done"
    /\ Len(slice) = 3
    /\ capability = 8
    /\ PaddingRows(region, capability) = 3..7
    /\ RowState(region, 5) = post_initialization_state
    /\ RowState(region, 8) = post_initialization_state

(***************************************************************************)
(* C12: the slice without steps                                             *)
(***************************************************************************)
\* the columns only the closure of a step assigns
StepOnlyColumns == {"op_cell", "enabled_cell", "itable_lookup_cell", "step_status"}

\* the row indices of the cells of a column
RowsOf(reg, column) ==
    {x[1] \div EVENT_TABLE_ENTRY_ROWS : x \in {y \in DOMAIN reg : y[2] = column}}

\* the row indices of all cells
AllRows(reg) == {x[1] \div EVENT_TABLE_ENTRY_ROWS : x \in DOMAIN reg}

\* C12: for a slice without steps assign_entries returns before the fold: no
\* snapshot is computed and no row of a step is placed; once assign has
\* completed, the region holds the selector on the rows 0..C-1, these rows
\* are padding rows with the post-checkpoint, and row C is the final row.
C12_ZeroSteps ==
    (Len(slice) = 0 /\ apc # "idle") =>
        /\ status = <<>>
        /\ fold = NoFold
        /\ placed = {}
        /\ apc \notin {"fold", "place", "panicked"}
        /\ \A x \in DOMAIN region : x[2] \notin StepOnlyColumns
        /\ apc = "done" =>
              /\ RowsOf(region, "step_sel") = 0..(capability - 1)
              /\ PaddingRows(region, capability) = 0..(capability - 1)
              /\ AllRows(region) = 0..capability
              /\ \A m \in 0..capability : RowState(region, m) = post_initialization_state

\* assign has completed for a slice without steps and a capacity of 8
C12_Witness ==
    /\ apc = "done"
    /\ Len(slice) = 0
    /\ capability = 8
    /\ status = <<>>
    /\ PaddingRows(region, capability) = 0..7
    /\ HasCell(region, 8, "eid_cell")

(***************************************************************************)
(* C13: cutting a step sequence                                             *)
(***************************************************************************)
\* C13: when a step sequence is cut at any position into two slices and the
\* counters of the pre-checkpoint of the second are the terminal counters of
\* the first, the four cursors (and, under continuation, jops) after the fold
\* of the second slice are those after the fold of the uncut sequence.
C13_Chaining ==
    (chain # NoChain /\ chain.uncut # NoFold /\ chain.b # NoFold) =>
        /\ \A cursor \in Cursors : chain.b[cursor] = chain.uncut[cursor]
        /\ continuation => chain.b.jops = chain.uncut.jops

\* both slices have steps that move a cursor and, under continuation, jops
C13_Witness ==
    /\ chain # NoChain /\ chain.uncut # NoFold /\ chain.b # NoFold
    /\ continuation
    /\ cut \in 1..(Len(slice) - 1)
    /\ initialization_state.context_in_index = 2
    /\ chain.a.context_in_index = 3
    /\ chain.b.context_in_index = 4
    /\ chain.a.jops = initialization_state.jops
    /\ chain.b.jops = initialization_state.jops + 1

(***************************************************************************)
(* C14: a read without a write before it                                    *)
(***************************************************************************)
\* access j of step i is a read of a cell that has no writing entry with an
\* eid strictly below the eid of the step (or no writing entry at all)
ReadWithoutWrite(i, j) ==
    LET mentry == memory_event_of_step(event_table[i])[j]
        eids == WriteEidsOf(mtable, CellOf(mentry))
    IN  /\ mentry.atype = "Read"
        /\ \A m \in 1..Len(eids) : eids[m] >= event_table[i].eid

\* C14: when a step reads a cell that has no writing entry at all, or none
\* with an eid strictly below the eid of the step, new() aborts: the lookup
\* of this read fails and no list of joined steps is returned.
C14_ReadWithoutWriteAborts ==
    Joined =>
        \A i \in 1..Len(event_table) : \A j \in 1..Len(memory_event_of_step(event_table[i])) :
            ReadWithoutWrite(i, j) =>
                /\ ~QueryOf(i, j).ok
                /\ joined.panicked
                /\ joined.entries = <<>>
                /\ pc = "panicked"

\* new() has aborted on a read of a cell whose only write is that of the
\* reading step itself
C14_Witness ==
    /\ pc = "panicked"
    /\ \E i \in 1..Len(event_table) : \E j \in 1..Len(memory_event_of_step(event_table[i])) :
          /\ ReadWithoutWrite(i, j)
          /\ WriteEidsOf(mtable, CellOf(memory_event_of_step(event_table[i])[j]))
                = <<event_table[i].eid>>

\* new() has aborted on a read of a cell that has no writing entry at all
C14_WitnessNeverWritten ==
    /\ pc = "panicked"
    /\ \E i \in 1..Len(event_table) : \E j \in 1..Len(memory_event_of_step(event_table[i])) :
          /\ ReadWithoutWrite(i, j)
          /\ WriteEidsOf(mtable, CellOf(memory_event_of_step(event_table[i])[j])) = <<>>
          /\ memory_writing_table # <<>>

(***************************************************************************)
(* C15: the list of joined steps                                            *)
(***************************************************************************)
\* C15: the list new() returns has one joined step per step of the event
\* table, in the order of the event table, and a joined step has one
\* (access, start_eid, end_eid) triple per memory access of its step, in the
\* order of these accesses.
C15_OneToOne ==
    pc = "joined" =>
        /\ ~joined.panicked
        /\ Len(joined.entries) = Len(event_table)
        /\ \A i \in 1..Len(event_table) :
              LET mem == memory_event_of_step(event_table[i])
                  rw == joined.entries[i].memory_rw_entires
              IN  /\ joined.entries[i].eentry = event_table[i]
                  /\ Len(rw) = Len(mem)
                  /\ \A j \in 1..Len(mem) :
                        /\ rw[j].entry = mem[j]
                        /\ rw[j].start_eid = QueryOf(i, j).start_eid
                        /\ rw[j].end_eid = QueryOf(i, j).end_eid

\* new() has returned for two steps, one of them with a read and a write
C15_Witness ==
    /\ pc = "joined"
    /\ Len(joined.entries) = 2
    /\ joined.entries[1].eentry.eid < joined.entries[2].eentry.eid
    /\ \E i \in 1..2 :
          /\ Len(joined.entries[i].memory_rw_entires) = 2
          /\ joined.entries[i].memory_rw_entires[1].entry.atype = "Read"
          /\ joined.entries[i].memory_rw_entires[2].entry.atype = "Write"

(***************************************************************************)
(* C16: the workers of the parallel placement                               *)
(***************************************************************************)
\* the rows of the block of step index i
BlockRows(i) == (EVENT_TABLE_ENTRY_ROWS * i)..(EVENT_TABLE_ENTRY_ROWS * (i + 1) - 1)

\* the cells a region holds on a set of rows
CellsOn(reg, rows) == [x \in {y \in DOMAIN reg : y[1] \in rows} |-> reg[x]]

\* the region as it is when the parallel phase starts
RegionBeforePlacement ==
    assign_rest_ops_first_step(
        assign_step_state(init(NoRegion, capability), 0, initialization_state))

\* C16: during the parallel placement, whichever workers have run and in
\* whichever order, the block of a step index whose worker has run holds
\* what this worker alone places on the region the phase started with, and
\* every row outside the blocks of these workers is as it was when the phase
\* started: a worker writes only rows of its own block, the blocks are
\* disjoint, and the values do not depend on the interleaving.
C16_DisjointBlocks ==
    apc = "place" =>
        /\ placed \subseteq 0..(Len(slice) - 1)
        /\ \A i \in placed : \A j \in placed : i # j => BlockRows(i) \cap BlockRows(j) = {}
        /\ \A i \in placed :
              CellsOn(region, BlockRows(i))
                  = CellsOn(place_entry(RegionBeforePlacement, i, slice[i + 1], status),
                            BlockRows(i))
        /\ LET others == {x[1] : x \in DOMAIN region} \ UNION {BlockRows(i) : i \in placed}
           IN  CellsOn(region, others) = CellsOn(RegionBeforePlacement, others)

\* the worker of the last of three steps has run first
C16_Witness ==
    /\ apc = "place"
    /\ Len(slice) = 3
    /\ placed = {2}
    /\ <<2 * EVENT_TABLE_ENTRY_ROWS, "enabled_cell">> \in DOMAIN region
    /\ <<EVENT_TABLE_ENTRY_ROWS, "enabled_cell">> \notin DOMAIN region

(***************************************************************************)
(* C17: the barrier between the fold and the parallel placement             *)
(***************************************************************************)
\* a worker of the parallel phase has started, or may start
PlacementStarted == apc = "place" \/ placed # {} \/ StepRowPlaced

\* C17: when a worker of the parallel placement starts, the fold has emitted
\* the snapshot of every step and the terminal one (n + 1 snapshots) and the
\* assertions on the cursors have passed; from then on the snapshot list
\* does not change.
C17_Barrier ==
    /\ [](PlacementStarted =>
            /\ Len(status) = Len(slice) + 1
            /\ \A cursor \in Cursors : fold[cursor] = post_initialization_state[cursor]
            /\ \A i \in 1..Len(slice) : status[i].eid = slice[i].eid
            /\ status[Len(status)].eid = post_initialization_state.eid)
    /\ [][PlacementStarted => (status' = status /\ fold' = fold)]_vars

\* two of three workers have run, above the four snapshots of the fold
C17_Witness ==
    /\ apc = "place"
    /\ Len(slice) = 3
    /\ Cardinality(placed) = 2
    /\ Len(status) = 4

(***************************************************************************)
(* C18: a failure of the debug dump                                         *)
(***************************************************************************)
\* the dump file could not be created or written
DumpFailed == dump.io \in {"create_fails", "write_fails"}

\* C18 as claimed: a failure to create or write the dump file does not abort
\* the caller; it is reported as an error value and the pipeline can go on.
C18_DumpFailureIsolated ==
    DumpFailed =>
        /\ dump.result = "Err"
        /\ pc # "dump_panicked"

\* what write_json() does: a failure to create or write the file is a panic
\* in the caller, a success returns the unit value, no error value exists.
C18_DumpFailureAborts ==
    /\ DumpFailed => (dump.result = "panic" /\ pc = "dump_panicked")
    /\ dump.result \in {"none", "unit", "panic"}
    /\ pc = "dump_panicked" => (joined = Idle /\ finalize = NoFinalize)

\* the pipeline has been aborted by a dump file that could not be created
C18_Witness ==
    /\ pc = "dump_panicked"
    /\ dump.io = "create_fails"
    /\ memory_writing_table # <<>>

(***************************************************************************)
(* C19: rest_mops from snapshot to snapshot                                 *)
(***************************************************************************)
\* the snapshot list is complete: one per step and the terminal one
SnapshotsComplete == Len(slice) >= 1 /\ Len(status) = Len(slice) + 1

\* C19 as claimed: rest_mops strictly decreases from every snapshot to the
\* next one and is 0 at the end of the slice without continuation.
C19_StrictlyDecreases ==
    /\ \A i \in 1..(Len(status) - 1) : status[i + 1].rest_mops < status[i].rest_mops
    /\ (~continuation /\ SnapshotsComplete) => status[Len(status)].rest_mops = 0

\* C19, amended: rest_mops never increases from a snapshot to the next one:
\* it falls by the memory writing operations of the step between them, so it
\* keeps its value across a step that has none and strictly decreases across
\* every other step; it is 0 in the terminal snapshot, in both modes.
C19_NeverIncreases ==
    /\ \A i \in 1..(Len(status) - 1) :
          /\ status[i + 1].rest_mops <= status[i].rest_mops
          /\ status[i + 1].rest_mops = status[i].rest_mops - memory_writing_ops(slice[i])
          /\ (status[i + 1].rest_mops < status[i].rest_mops)
                <=> memory_writing_ops(slice[i]) > 0
    /\ SnapshotsComplete => status[Len(status)].rest_mops = 0

\* without continuation: a complete snapshot list in which rest_mops keeps
\* its value across one step and falls across another, down to 0
C19_Witness ==
    /\ ~continuation
    /\ SnapshotsComplete
    /\ \E i \in 1..Len(slice) : status[i + 1].rest_mops = status[i].rest_mops
    /\ \E i \in 1..Len(slice) : status[i + 1].rest_mops < status[i].rest_mops
    /\ status[Len(status)].rest_mops = 0

(***************************************************************************)
(* C20: the pairs of snapshots                                              *)
(***************************************************************************)
\* the running counters a snapshot holds
CountersOf(snapshot) ==
    [host_public_inputs |-> snapshot.host_public_inputs,
     context_in_index |-> snapshot.context_in_index,
     context_out_index |-> snapshot.context_out_index,
     external_host_call_call_index |-> snapshot.external_host_call_call_index,
     rest_mops |-> snapshot.rest_mops, jops |-> snapshot.jops]

\* the snapshot carries the identity fields of the step
IdentityOfStep(snapshot, eentry) ==
    /\ snapshot.eid = eentry.eid /\ snapshot.fid = eentry.fid /\ snapshot.iid = eentry.iid
    /\ snapshot.sp = eentry.sp /\ snapshot.last_jump_eid = eentry.last_jump_eid
    /\ snapshot.allocated_memory_pages = eentry.allocated_memory_pages

\* the snapshot carries the identity fields of the checkpoint
IdentityOfState(snapshot, state) ==
    /\ snapshot.eid = state.eid /\ snapshot.fid = state.fid /\ snapshot.iid = state.iid
    /\ snapshot.sp = state.sp /\ snapshot.last_jump_eid = state.frame_id
    /\ snapshot.allocated_memory_pages = state.initial_memory_pages

\* C20: the snapshot of step i holds the identity fields of step i and the
\* counters before step i is applied (those of the start for the first step),
\* the snapshot after it holds these counters updated by step i alone, the
\* closure of step i is handed (snapshot i, snapshot i + 1), and for the last
\* step the second one is the terminal snapshot, whose identity fields are
\* those of the expected post-checkpoint.
C20_SnapshotPairs ==
    (apc \in {"fold", "place", "padding", "done", "panicked"} /\ fold # NoFold) =>
        /\ Len(status) >= 1 =>
              CountersOf(status[1]) = fold_start(initialization_state, rest_ops[1], rest_ops[2])
        /\ \A i \in 1..Len(status) : i <= Len(slice) =>
              /\ IdentityOfStep(status[i], slice[i])
              /\ i < Len(status) =>
                    CountersOf(status[i + 1]) = fold_step(CountersOf(status[i]), slice[i])
        /\ Len(status) = Len(slice) + 1 =>
              IdentityOfState(status[Len(status)], post_initialization_state)
        /\ \A index \in placed :
              region[<<EVENT_TABLE_ENTRY_ROWS * index, "step_status">>]
                  = [current |-> status[index + 1], next |-> status[index + 2]]

\* the closure of the last of three steps has been handed the terminal snapshot
C20_Witness ==
    /\ apc = "done"
    /\ Len(slice) = 3
    /\ placed = {0, 1, 2}
    /\ region[<<EVENT_TABLE_ENTRY_ROWS * 2, "step_status">>].next = status[4]
    /\ region[<<EVENT_TABLE_ENTRY_ROWS * 2, "step_status">>].current.eid = slice[3].eid
    /\ status[4].eid = post_initialization_state.eid
    /\ status[4].context_in_index > status[1].context_in_index

(***************************************************************************)
(* C21: the upper end of an interval                                        *)
(***************************************************************************)
\* C21 as claimed: end_eid is an exclusive upper bound: no read by a step at
\* eid is resolved to an interval whose end_eid equals eid.
C21_EndExclusive ==
    pc = "joined" =>
        \A i \in 1..Len(event_table) : \A j \in 1..Len(memory_event_of_step(event_table[i])) :
            memory_event_of_step(event_table[i])[j].atype = "Read" =>
                joined.entries[i].memory_rw_entires[j].end_eid # event_table[i].eid

\* C21, amended: end_eid is an inclusive upper bound for reads: a read by a
\* step at eid of a cell written before resolves to the interval with
\* start_eid < eid <= end_eid, and when the step at eid also writes the cell,
\* the read resolves to the interval that ends at eid (the value written
\* before this step), not to the one that starts there.
C21_EndInclusive ==
    Joined =>
        \A i \in 1..Len(event_table) : \A j \in 1..Len(memory_event_of_step(event_table[i])) :
            LET eid == event_table[i].eid
                mentry == memory_event_of_step(event_table[i])[j]
                eids == WriteEidsOf(mtable, CellOf(mentry))
                r == QueryOf(i, j)
            IN  (mentry.atype = "Read" /\ \E m \in 1..Len(eids) : eids[m] < eid) =>
                    /\ r.ok
                    /\ r.start_eid < eid /\ eid <= r.end_eid
                    /\ (\E m \in 1..Len(eids) : eids[m] = eid) => r.end_eid = eid
                    /\ JoinedHolds(i, j, r)

\* new() has joined a read at eid 5 with (1, 5): the step at 5 reads the
\* cell written at 1 and writes it
C21_Witness ==
    /\ pc = "joined"
    /\ \E i \in 1..Len(event_table) : \E j \in 1..Len(memory_event_of_step(event_table[i])) :
          /\ event_table[i].eid = 5
          /\ memory_event_of_step(event_table[i])[j].atype = "Read"
          /\ joined.entries[i].memory_rw_entires[j].start_eid = 1
          /\ joined.entries[i].memory_rw_entires[j].end_eid = 5

(***************************************************************************)
(* C22: the state on the row of a step                                      *)
(***************************************************************************)
\* C22: the row placed for step i holds a state whose eid, fid, iid and sp
\* are those of the step, whose frame_id is the last_jump_eid of the step,
\* whose initial_memory_pages is the allocated_memory_pages of the step,
\* whose maximal_memory_pages is the bound of the configure table, and whose
\* cursors (and jops under continuation) are those of snapshot i.
C22_StepRowState ==
    \A index \in placed :
        LET eentry == slice[index + 1]
            snapshot == status[index + 1]
            row == RowState(region, index)
        IN  /\ row.eid = eentry.eid /\ row.fid = eentry.fid
            /\ row.iid = eentry.iid /\ row.sp = eentry.sp
            /\ row.frame_id = eentry.last_jump_eid
            /\ row.initial_memory_pages = eentry.allocated_memory_pages
            /\ row.maximal_memory_pages = MaximalMemoryPages
            /\ \A cursor \in Cursors : row[cursor] = snapshot[cursor]
            /\ continuation => row.jops = snapshot.jops
            /\ DOMAIN row = DOMAIN initialization_state

\* under continuation: the row of the second step, after a step that moved
\* a cursor and before a jops of its own, with a frame_id that differs from
\* its eid
C22_Witness ==
    /\ continuation
    /\ apc = "done"
    /\ 1 \in placed
    /\ RowState(region, 1).eid = 5
    /\ RowState(region, 1).frame_id = 3
    /\ RowState(region, 1).initial_memory_pages = 2
    /\ RowState(region, 1).context_in_index = 3
    /\ RowState(region, 1).jops = status[2].jops
    /\ status[3].jops = 4

(***************************************************************************)
(* C23                                                                     *)
(***************************************************************************)
\* the order the fields are listed in, jops last and only under continuation
FieldOrder ==
    <<"eid", "fid", "iid", "frame_id", "sp", "host_public_inputs", "context_in_index",
      "context_out_index", "external_host_call_call_index", "initial_memory_pages",
      "maximal_memory_pages">> \o (IF continuation THEN <<"jops">> ELSE <<>>)

IsPrefix(a, b) == Len(a) <= Len(b) /\ a = SubSeq(b, 1, Len(a))

\* C23: a Checkpoint Vector has 11 fields without continuation and 12 with
\* it; plain() returns exactly field_count() values, in the order eid, fid,
\* iid, frame_id, sp, host_public_inputs, context_in_index, context_out_index,
\* external_host_call_call_index, initial_memory_pages, maximal_memory_pages
\* and, only under continuation, jops last; zip_for_each calls its closure on
\* the pairs of the same fields in the same order (all of them when no call
\* fails, and up to the failing call otherwise), and map calls f on the same
\* fields in the same order and g on jops, last.
C23_FieldOrder ==
    fields # NoFields =>
        /\ field_count = (IF continuation THEN 12 ELSE 11)
        /\ Len(FieldOrder) = field_count
        /\ DOMAIN fields.self = {FieldOrder[i] : i \in 1..Len(FieldOrder)}
        /\ "plain" \in fields.applied =>
              /\ Len(fields.plain) = field_count
              /\ fields.plain = [i \in 1..field_count |-> fields.self[FieldOrder[i]]]
        /\ "zip_for_each" \in fields.applied =>
              LET pairs == [i \in 1..field_count |->
                               <<fields.self[FieldOrder[i]], fields.other[FieldOrder[i]]>>]
              IN  /\ IsPrefix(fields.zipped.calls, pairs)
                  /\ fields.fail_at = 0 =>
                        fields.zipped.calls = pairs /\ fields.zipped.result = "Ok"
                  /\ fields.fail_at # 0 =>
                        Len(fields.zipped.calls) = fields.fail_at /\ fields.zipped.result = "Err"
        /\ "map" \in fields.applied =>
              /\ fields.mapped.calls =
                    [i \in 1..field_count |->
                        [closure |-> IF FieldOrder[i] = "jops" THEN "g" ELSE "f",
                         value |-> fields.self[FieldOrder[i]]]]
              /\ DOMAIN fields.mapped.result = DOMAIN fields.self

\* under continuation all three have been applied to a vector of twelve
\* different values, no call of the closure failing
C23_Witness ==
    /\ fields # NoFields
    /\ continuation
    /\ fields.fail_at = 0
    /\ fields.self # fields.other
    /\ "plain" \in fields.applied /\ Len(fields.plain) = 12 /\ fields.plain[12] = fields.self.jops
    /\ "zip_for_each" \in fields.applied /\ Len(fields.zipped.calls) = 12
    /\ "map" \in fields.applied /\ fields.mapped.calls[12].closure = "g"

\* without continuation the vector has eleven values, and a failing call
\* ended zip_for_each early
C23_WitnessEleven ==
    /\ fields # NoFields
    /\ ~continuation
    /\ "plain" \in fields.applied /\ Len(fields.plain) = 11
    /\ "zip_for_each" \in fields.applied /\ fields.zipped.result = "Err"
    /\ Len(fields.zipped.calls) = 5

(***************************************************************************)
(* C24                                                                     *)
(***************************************************************************)
\* C24 as claimed: for every resolved list, grouped by cell or not, the count
\* equals the number of cells in the set.
C24_CountIsSetSize ==
    Counted => finalize.count = Cardinality(finalize.set)

\* C24, amended: for every resolved list grouped by cell the count equals the
\* number of cells in the set; for a list that is not grouped the count is at
\* least the number of cells in the set, a cell whose entries are split into
\* several runs that end with a Write access being counted once per run and
\* held once in the set.
C24_CountIsSetSizeWhenGrouped ==
    Counted =>
        /\ GroupedByCell(memory_writing_table) =>
              finalize.count = Cardinality(finalize.set)
        /\ finalize.count >= Cardinality(finalize.set)
        /\ finalize.count =
              Cardinality({i \in 1..Len(memory_writing_table) :
                              is_finalize_entry(memory_writing_table, i)})

\* the count of a grouped list with two counted cells and one cell that is
\* only initialised has been taken
C24_Witness ==
    /\ Counted
    /\ GroupedByCell(memory_writing_table)
    /\ finalize.count = 2
    /\ Cardinality(finalize.set) = 2
    /\ Cardinality(CellsIn(memory_writing_table)) = 3

\* a list that is not grouped: one cell written, another written, the first
\* written again, counted three times for two cells
C24_WitnessUngrouped ==
    /\ Counted
    /\ ~GroupedByCell(memory_writing_table)
    /\ Len(memory_writing_table) = 3
    /\ finalize.count = 3
    /\ Cardinality(finalize.set) = 2

(***************************************************************************)
(* C25                                                                     *)
(***************************************************************************)
\* C25 as claimed: after assign completes, row 0, the location returned as
\* the pre-checkpoint, holds the fields of the incoming Checkpoint Vector,
\* whether the slice has steps or none.
C25_RowZeroIsPre ==
    apc = "done" => RowState(region, 0) = initialization_state

\* what row 0 holds after assign completes: the row of step 0 when the slice
\* has steps, which is the incoming vector when step 0 carries its identity;
\* the expected post-checkpoint, written by the padding, when the slice has
\* no step.
C25_RowZeroLastWriter ==
    apc = "done" =>
        IF Len(slice) = 0
        THEN RowState(region, 0) = post_initialization_state
        ELSE /\ RowState(region, 0) = step_state(slice[1], status[1])
             /\ RowState(region, 0) = initialization_state

\* assign has completed for a slice without steps whose expected
\* post-checkpoint is not the incoming vector: row 0 holds the post-checkpoint
C25_Witness ==
    /\ apc = "done"
    /\ Len(slice) = 0
    /\ post_initialization_state # initialization_state
    /\ RowState(region, 0) = post_initialization_state
    /\ RowState(region, 0) # initialization_state

\* assign has completed for a slice with steps: row 0 was written by the
\* pre-checkpoint placement and again by step 0
C25_WitnessSteps ==
    /\ apc = "done"
    /\ Len(slice) >= 2
    /\ 0 \in placed
    /\ RowState(region, 0) = initialization_state
    /\ RowState(region, 0) # post_initialization_state

(***************************************************************************)
(* C26                                                                     *)
(***************************************************************************)
\* the jops the padding rows and the final row hold
PaddingJops(reg, cap) ==
    {CellAt(reg, m, "jops_cell") : m \in PaddingRows(reg, cap) \cup {cap}}

\* C26 as claimed: under continuation, for every slice that assign completes,
\* the jops of the terminal snapshot equals the jops field of the
\* post-checkpoint placed on the padding rows and the final row.
C26_TerminalJopsIsPost ==
    (continuation /\ apc = "done" /\ Len(slice) >= 1) =>
        /\ status[Len(status)].jops = post_initialization_state.jops
        /\ PaddingJops(region, capability) = {status[Len(status)].jops}

\* what holds under continuation once assign has completed: the terminal
\* snapshot has the accumulated jops (the pre-checkpoint's jops plus the jops
\* counts of all steps), the padding rows and the final row have the jops of
\* the supplied post-checkpoint, and the two agree exactly when the supplied
\* jops is the accumulated one, which no assertion tests.
C26_TerminalJopsAccumulated ==
    (continuation /\ apc = "done" /\ Len(slice) >= 1) =>
        /\ status[Len(status)].jops = initialization_state.jops + SumJops(slice)
        /\ PaddingJops(region, capability) = {post_initialization_state.jops}
        /\ (status[Len(status)].jops = post_initialization_state.jops)
              <=> (post_initialization_state.jops
                      = initialization_state.jops + SumJops(slice))

\* assign has completed under continuation for a slice with a call or return
\* whose post-checkpoint has another jops than the accumulated one
C26_Witness ==
    /\ continuation
    /\ apc = "done"
    /\ Len(slice) >= 2
    /\ SumJops(slice) >= 1
    /\ post_asserts_hold(post_initialization_state, fold)
    /\ status[Len(status)].jops # post_initialization_state.jops
    /\ CellAt(region, capability, "jops_cell") = post_initialization_state.jops
    /\ CellAt(region, capability, "jops_cell") # status[Len(status)].jops

====
